---- MODULE Spec2Model ----
(***************************************************************************)
(* A model of zettarepl/transport/interface.py: the streaming copy of      *)
(* AsyncExec._copy_stdout_from, the progress observers of                  *)
(* ReplicationProcess, Shell.exec / Shell.exec_async and ExecException.    *)
(* The four parts share no state, so each has a specification of its own.  *)
(***************************************************************************)
EXTENDS Integers, Sequences, FiniteSets, TLC

VARIABLES
    \* AsyncExec._copy_stdout_from
    stdout,             \* self.stdout: whether it is None, and what was put into it
    threads,            \* the stdout_copy threads started, in start order
    warnings,           \* self.logger.warning calls of the copy threads
    copyCalls,          \* calls of _copy_stdout_from made on the instance
    callerRaised,       \* an exception reached the thread calling _copy_stdout_from
    \* ReplicationProcess
    progress_observers, \* self.progress_observers
    addLog,             \* the add_progress_observer calls made, in call order
    notify,             \* the notify_progress_observer pass in progress, or the last one
    events,             \* notify_progress_observer calls begun
    rpState,            \* created, or running once run() was called
    \* Shell
    execs,              \* the AsyncExec instances constructed, in construction order
    caller,             \* the Shell.exec / Shell.exec_async call in progress
    callLog,            \* the calls that ended, with what they returned or raised
    \* ExecException
    excInput,           \* the (returncode, stdout) the exception was built with
    exc,                \* the exception object
    message,            \* str(exception), once rendered
    \* The base classes, as they are
    absLog,             \* operations called on the base classes, with their outcome
    \* Transport
    transports,         \* the Transport instances built by from_data
    compared,           \* the last comparison of two of them
    \* stop() and wait()
    proc,               \* a running AsyncExec or ReplicationProcess of a backend
    waits,              \* what each thread's wait() call on it is doing
    \* Logger ids
    asyncExecCounter,   \* AsyncExec._logger_counter: the value next() returns next
    shellCounter,       \* Shell._logger_counter: the value next() returns next
    instances           \* the AsyncExec and Shell instances constructed, with their ids

vars == <<stdout, threads, warnings, copyCalls, callerRaised,
          progress_observers, addLog, notify, events, rpState,
          execs, caller, callLog, excInput, exc, message,
          absLog, transports, compared, proc, waits,
          asyncExecCounter, shellCounter, instances>>

obsVars == <<progress_observers, addLog, notify, events, rpState>>
shellVars == <<execs, caller, callLog>>
excVars == <<excInput, exc, message>>
copyVars == <<stdout, threads, warnings, copyCalls, callerRaised>>
absVars == <<absLog>>
transportVars == <<transports, compared>>
stopVars == <<proc, waits>>
idVars == <<asyncExecCounter, shellCounter, instances>>

\* What the operations of one class leave alone: the other classes' state.
notCopy == <<obsVars, shellVars, excVars, absVars, transportVars, stopVars, idVars>>
notObs == <<copyVars, shellVars, excVars, absVars, transportVars, stopVars, idVars>>
notShell == <<copyVars, obsVars, excVars, absVars, transportVars, stopVars, idVars>>
notExc == <<copyVars, obsVars, shellVars, absVars, transportVars, stopVars, idVars>>
notAbs == <<copyVars, obsVars, shellVars, excVars, transportVars, stopVars, idVars>>
notTransport == <<copyVars, obsVars, shellVars, excVars, absVars, stopVars, idVars>>
notStop == <<copyVars, obsVars, shellVars, excVars, absVars, transportVars, idVars>>
notId == <<copyVars, obsVars, shellVars, excVars, absVars, transportVars, stopVars>>

(***************************************************************************)
(* Bounds                                                                  *)
(***************************************************************************)
MaxLines == 2
MaxCopyCalls == 2
MaxObservers == 3
MaxEvents == 2
MaxExecs == 2
MaxOutLen == 3
MaxAbstractCalls == 2

SeqsUpTo(S, n) == UNION {[1..k -> S] : k \in 0..n}

(***************************************************************************)
(* The state of each class before any of its operations                    *)
(***************************************************************************)
\* AsyncExec(shell, args): stdout=None
NoStdout == [isNone |-> TRUE, faulty |-> FALSE, items |-> <<>>]

\* ReplicationProcess: no notify_progress_observer call yet (earlier: the
\* invocations of the pass before this one)
NoPass ==
    [active |-> FALSE, i |-> 0, args |-> <<>>, atStart |-> <<>>, calls |-> <<>>,
     logged |-> <<>>, result |-> "none", grew |-> FALSE, earlier |-> <<>>]

\* Shell: no call in progress
Idle ==
    [op |-> "none", pc |-> "idle", shell |-> "none", args |-> <<>>,
     encoding |-> "none", stdout |-> "none", handle |-> 0]

\* ExecException: not built, not rendered
NoInput == [returncode |-> 0, stdout |-> <<>>]
NoException == [built |-> FALSE, returncode |-> 0, stdout |-> <<>>, args |-> <<>>]
NotRendered == [rendered |-> FALSE, text |-> <<>>]

\* Transport: none compared yet
NoComparison == [done |-> FALSE, left |-> 0, right |-> 0, equal |-> FALSE, sameHash |-> FALSE]

\* The threads that call wait() and stop()
Threads == {"t1", "t2"}

\* wait() and stop(): nothing constructed, nobody waiting
NoProc ==
    [kind |-> "none", sides |-> [s \in {"command", "send", "recv"} |-> "absent"],
     stopped |-> FALSE, signalled |-> FALSE, outstanding |-> {}]
NoWaits == [th \in Threads |-> "none"]

(***************************************************************************)
(* AsyncExec._copy_stdout_from                                             *)
(***************************************************************************)
\* The lines a stream yields: a text line and a blank line, newline kept.
Line == {"a\n", "\n"}

\* Python's None, the end-of-stream marker.
None == "None"

\* What one file_like.readline() call does: it returns a line, returns ""
\* at the end of the stream, or raises.
Raises == "raises"
ReadlineResult == Line \cup {"", Raises}

\* The lines read from all the streams together (the model bounds them).
RECURSIVE SumLen(_, _)
SumLen(ths, n) == IF n = 0 THEN 0 ELSE Len(ths[n].got) + SumLen(ths, n - 1)
LinesRead == SumLen(threads, Len(threads))

\* `if not line: break`
NotLineBlank(line) == line \in {"", "\n"}
NotLine(line) == line = ""

\* A copy thread: where it is in target(), the line it holds, and of its
\* stream the lines read so far (got) and what the last readline did (last).
NewThread ==
    [pc |-> "read", line |-> "", got |-> <<>>, last |-> "none"]

\* self.stdout.put(v), by copy thread t
Put(t, v) == stdout' = [stdout EXCEPT !.items = Append(@, [val |-> v, by |-> t])]

\* _copy_stdout_from(file_like): start the thread when there is a sink, return.
CopyStdoutFromInline ==
    /\ copyCalls < MaxCopyCalls
    /\ copyCalls' = copyCalls + 1
    /\ IF stdout.isNone
       THEN UNCHANGED <<threads, stdout>>
       ELSE /\ threads' = Append(threads, [NewThread EXCEPT !.pc = "done"])
            /\ Put(Len(threads) + 1, None)
    /\ UNCHANGED <<warnings, callerRaised, notCopy>>
CopyStdoutFromAlways ==
    /\ copyCalls < MaxCopyCalls
    /\ copyCalls' = copyCalls + 1
    /\ threads' = Append(threads, NewThread)
    /\ UNCHANGED <<stdout, warnings, callerRaised, notCopy>>
CopyStdoutFrom ==
    /\ copyCalls < MaxCopyCalls
    /\ copyCalls' = copyCalls + 1
    /\ threads' = IF stdout.isNone THEN threads ELSE Append(threads, NewThread)
    /\ UNCHANGED <<stdout, warnings, callerRaised, notCopy>>

\* line = file_like.readline(); if not line: break
TargetRead(t) ==
    /\ threads[t].pc = "read"
    /\ \E r \in ReadlineResult :
        /\ r \in Line => LinesRead < MaxLines
        /\ IF r = Raises
           THEN threads' = [threads EXCEPT ![t].pc = "except", ![t].last = r]
           ELSE IF NotLine(r)
           THEN threads' = [threads EXCEPT ![t].pc = "finally", ![t].line = r,
                                           ![t].last = r,
                                           ![t].got = IF r \in Line THEN Append(@, r) ELSE @]
           ELSE threads' = [threads EXCEPT ![t].pc = "put", ![t].line = r,
                                           ![t].last = r, ![t].got = Append(@, r)]
    /\ UNCHANGED <<stdout, warnings, copyCalls, callerRaised, notCopy>>

\* self.stdout.put(line): the sink takes the line, or (a faulty sink) raises
TargetPutLine(t) ==
    /\ threads[t].pc = "put"
    /\ \/ /\ Put(t, threads[t].line)
          /\ threads' = [threads EXCEPT ![t].pc = "read"]
       \/ /\ stdout.faulty
          /\ threads' = [threads EXCEPT ![t].pc = "except"]
          /\ UNCHANGED stdout
    /\ UNCHANGED <<warnings, copyCalls, callerRaised, notCopy>>

\* except Exception as e: self.logger.warning(...)
TargetExceptSilent(t) ==
    /\ threads[t].pc = "except"
    /\ threads' = [threads EXCEPT ![t].pc = "finally"]
    /\ UNCHANGED <<warnings, stdout, copyCalls, callerRaised, notCopy>>
TargetExceptNoFinally(t) ==
    /\ threads[t].pc = "except"
    /\ warnings' = Append(warnings, t)
    /\ threads' = [threads EXCEPT ![t].pc = "done"]
    /\ UNCHANGED <<stdout, copyCalls, callerRaised, notCopy>>
TargetExcept(t) ==
    /\ threads[t].pc = "except"
    /\ warnings' = Append(warnings, t)
    /\ threads' = [threads EXCEPT ![t].pc = "finally"]
    /\ UNCHANGED <<stdout, copyCalls, callerRaised, notCopy>>

\* finally: self.stdout.put(None); a raise here ends the thread, uncaught
TargetFinally(t) ==
    /\ threads[t].pc = "finally"
    /\ \/ /\ Put(t, None)
          /\ threads' = [threads EXCEPT ![t].pc = "done"]
       \/ /\ stdout.faulty
          /\ threads' = [threads EXCEPT ![t].pc = "died"]
          /\ UNCHANGED stdout
    /\ UNCHANGED <<warnings, copyCalls, callerRaised, notCopy>>

Target(t) ==
    \/ TargetRead(t)
    \/ TargetPutLine(t)
    \/ TargetExcept(t)
    \/ TargetFinally(t)

\* A sink is given or not; a given sink's put may be one that can raise.
InitCopy ==
    /\ stdout \in {sink \in [isNone : BOOLEAN, faulty : BOOLEAN, items : {<<>>}] :
                      sink.isNone => ~sink.faulty}
    /\ threads = <<>>
    /\ warnings = <<>>
    /\ copyCalls = 0
    /\ callerRaised = FALSE
    /\ progress_observers = <<>> /\ addLog = <<>> /\ notify = NoPass
    /\ events = 0 /\ rpState = "created"
    /\ execs = <<>> /\ caller = Idle /\ callLog = <<>>
    /\ excInput = NoInput /\ exc = NoException /\ message = NotRendered
    /\ absLog = <<>> /\ transports = <<>> /\ compared = NoComparison
    /\ proc = NoProc /\ waits = NoWaits
    /\ asyncExecCounter = 1 /\ shellCounter = 1 /\ instances = <<>>

NextCopy ==
    \/ CopyStdoutFrom
    \/ \E t \in 1..Len(threads) : TargetRead(t)
    \/ \E t \in 1..Len(threads) : TargetPutLine(t)
    \/ \E t \in 1..Len(threads) : TargetExcept(t)
    \/ \E t \in 1..Len(threads) : TargetFinally(t)

(***************************************************************************)
(* Properties of the streaming copy                                        *)
(***************************************************************************)
Vals(items) == [i \in 1..Len(items) |-> items[i].val]

\* What copy thread t put into the sink, in order.
DeliveredBy(t) == Vals(SelectSeq(stdout.items, LAMBDA e : e.by = t))

Ended(t) == threads[t].pc \in {"done", "died"}

MarkerBy(t) == \E i \in 1..Len(stdout.items) :
                  stdout.items[i].by = t /\ stdout.items[i].val = None

\* C1: with a sink whose put does not raise, a copy whose stream ended normally
\* (the last readline returned "") has put exactly the lines read, verbatim and
\* in order, then one None; a single call leaves exactly that in the sink, and
\* for a stream of no lines that is one None alone. No line, a blank one
\* included, ends the copy: after reading a line the thread puts it and reads on.
C1_LinesThenOneMarker ==
    \A t \in 1..Len(threads) :
        /\ (~stdout.faulty /\ Ended(t) /\ threads[t].last = "") =>
            /\ DeliveredBy(t) = threads[t].got \o <<None>>
            /\ copyCalls = 1 => Vals(stdout.items) = threads[t].got \o <<None>>
        /\ (~stdout.faulty /\ threads[t].last \in Line) =>
            /\ threads[t].pc \in {"put", "read"}
            /\ DeliveredBy(t) = IF threads[t].pc = "put"
                                THEN SubSeq(threads[t].got, 1, Len(threads[t].got) - 1)
                                ELSE threads[t].got

C1_Witness ==
    /\ copyCalls = 1 /\ Len(threads) = 1 /\ ~stdout.faulty
    /\ Ended(1) /\ threads[1].last = ""
    /\ threads[1].got = <<"a\n", "\n">>
    /\ Vals(stdout.items) = <<"a\n", "\n", None>>

\* C2: with a sink whose put does not raise, a copy whose read raised after k
\* lines has put exactly those k lines in order, then one None; it logged one
\* warning, and nothing was raised into the thread that called
\* _copy_stdout_from.
C2_ReadErrorStillMarks ==
    \A t \in 1..Len(threads) :
        (~stdout.faulty /\ Ended(t) /\ threads[t].last = Raises) =>
            /\ DeliveredBy(t) = threads[t].got \o <<None>>
            /\ Len(SelectSeq(warnings, LAMBDA w : w = t)) = 1
            /\ ~callerRaised

C2_Witness ==
    \E t \in 1..Len(threads) :
        /\ ~stdout.faulty /\ Ended(t) /\ threads[t].last = Raises
        /\ Len(threads[t].got) >= 1
        /\ warnings /= <<>>

C4_AtMostOneMarkerAndNothingAfter ==
    \A i \in 1..Len(stdout.items) :
        stdout.items[i].val = None => i = Len(stdout.items)

\* C14: an AsyncExec never has more than one copy thread at work, however
\* many times _copy_stdout_from was called on it.
C14_AtMostOneCopyThread ==
    Cardinality({t \in 1..Len(threads) : ~Ended(t)}) <= 1

\* C15: a _copy_stdout_from call returns having only started its thread: the
\* step reads no line and puts nothing into the sink, the new thread stands
\* before its first readline and the earlier threads are where they were;
\* and whatever the copy threads are doing, the caller's next call can be made.
C15_CallDoesNotWaitForTheCopy ==
    /\ [](copyCalls < MaxCopyCalls => ENABLED CopyStdoutFrom)
    /\ [][copyCalls' # copyCalls =>
            /\ stdout' = stdout /\ warnings' = warnings
            /\ \A t \in 1..Len(threads) : threads'[t] = threads[t]
            /\ \A t \in (Len(threads) + 1)..Len(threads') : threads'[t] = NewThread]_vars

\* The caller made its second call while the first call's thread had read a
\* line that is still undelivered.
C15_Witness ==
    /\ copyCalls = 2 /\ Len(threads) = 2
    /\ threads[1].pc = "put" /\ DeliveredBy(1) = <<>>
    /\ threads[2].pc = "read"

\* C16: without a sink, _copy_stdout_from starts no thread, no line is read
\* from a stream, and nothing - no line, no marker, no warning - is delivered.
C16_NoSinkNoCopy ==
    stdout.isNone =>
        /\ threads = <<>> /\ LinesRead = 0
        /\ stdout.items = <<>> /\ warnings = <<>>

\* _copy_stdout_from was called, more than once, on an AsyncExec without a sink.
C16_Witness == stdout.isNone /\ copyCalls >= 2 /\ threads = <<>>

(***************************************************************************)
(* ReplicationProcess: progress observers                                  *)
(***************************************************************************)
\* The callables registered; each may return or raise an Exception when invoked.
Observer == {"o1", "o2"}

\* (snapshot, current, total) of a progress event
ProgressArgs == {<<"snap1", 0, 0>>, <<"snap2", 1, 2>>}

\* self.progress_observers.append(progress_observer)
AppendedOnce(observers, o) ==
    IF \E k \in 1..Len(observers) : observers[k] = o THEN observers ELSE Append(observers, o)
AppendedFront(observers, o) == <<o>> \o observers
Appended(observers, o) == Append(observers, o)

AddProgressObserver(o) ==
    /\ Len(addLog) < MaxObservers
    /\ progress_observers' = Appended(progress_observers, o)
    /\ addLog' = Append(addLog, [observer |-> o, state |-> rpState])
    /\ notify' = IF notify.active THEN [notify EXCEPT !.grew = TRUE] ELSE notify
    /\ UNCHANGED <<events, rpState, notObs>>

\* notify_progress_observer(snapshot, current, total) is called: the for
\* statement takes an iterator over the list itself, at index 0.
NotifyProgressObserver(args) ==
    /\ ~notify.active
    /\ events < MaxEvents
    /\ events' = events + 1
    /\ notify' = [NoPass EXCEPT !.active = TRUE, !.args = args,
                                !.atStart = progress_observers,
                                !.earlier = [k \in 1..Len(notify.calls) |->
                                               [observer |-> notify.calls[k].observer,
                                                raised |-> notify.calls[k].raised]]]
    /\ UNCHANGED <<progress_observers, addLog, rpState, notObs>>

\* The body of the for statement for observer o: the call returns, or it
\* raises and `except Exception` logs a warning naming the observer.
ObserverCalledUncaught(n, o, raised) ==
    IF raised
    THEN [n EXCEPT !.i = @ + 1, !.active = FALSE, !.result = "raised",
                   !.calls = Append(@, [observer |-> o, args |-> n.args, raised |-> raised])]
    ELSE [n EXCEPT !.i = @ + 1,
                   !.calls = Append(@, [observer |-> o, args |-> n.args, raised |-> raised])]
ObserverCalled(n, o, raised) ==
    [n EXCEPT !.i = @ + 1,
              !.calls = Append(@, [observer |-> o, args |-> n.args, raised |-> raised]),
              !.logged = IF raised THEN Append(@, o) ELSE @]

\* One step of `for progress_observer in self.progress_observers`: the list
\* iterator yields the entry at its index if the list, as it is now, has one,
\* and the loop ends otherwise.
NotifyStepDropsRaiser ==
    /\ notify.active
    /\ IF notify.i < Len(progress_observers)
       THEN \E raised \in BOOLEAN :
               /\ notify' = ObserverCalled(notify, progress_observers[notify.i + 1], raised)
               /\ progress_observers' =
                      IF raised
                      THEN SubSeq(progress_observers, 1, notify.i)
                           \o SubSeq(progress_observers, notify.i + 2, Len(progress_observers))
                      ELSE progress_observers
       ELSE /\ notify' = [notify EXCEPT !.active = FALSE, !.result = "returned"]
            /\ UNCHANGED progress_observers
    /\ UNCHANGED <<addLog, events, rpState, notObs>>
NotifyStep ==
    /\ notify.active
    /\ IF notify.i < Len(progress_observers)
       THEN \E raised \in BOOLEAN :
               notify' = ObserverCalled(notify, progress_observers[notify.i + 1], raised)
       ELSE notify' = [notify EXCEPT !.active = FALSE, !.result = "returned"]
    /\ UNCHANGED <<progress_observers, addLog, events, rpState, notObs>>

\* run() of a backend: the pipeline is started, once.
RpRun ==
    /\ rpState = "created"
    /\ rpState' = "running"
    /\ UNCHANGED <<progress_observers, addLog, notify, events, notObs>>

InitObs ==
    /\ progress_observers = <<>>
    /\ addLog = <<>>
    /\ notify = NoPass
    /\ events = 0
    /\ rpState = "created"
    /\ stdout = NoStdout /\ threads = <<>> /\ warnings = <<>>
    /\ copyCalls = 0 /\ callerRaised = FALSE
    /\ execs = <<>> /\ caller = Idle /\ callLog = <<>>
    /\ excInput = NoInput /\ exc = NoException /\ message = NotRendered
    /\ absLog = <<>> /\ transports = <<>> /\ compared = NoComparison
    /\ proc = NoProc /\ waits = NoWaits
    /\ asyncExecCounter = 1 /\ shellCounter = 1 /\ instances = <<>>

NextObs ==
    \/ \E o \in Observer : AddProgressObserver(o)
    \/ \E args \in ProgressArgs : NotifyProgressObserver(args)
    \/ NotifyStep
    \/ RpRun

(***************************************************************************)
(* Properties of the progress observers                                    *)
(***************************************************************************)
PassDone == ~notify.active /\ notify.result /= "none"

CalledObservers == [k \in 1..Len(notify.calls) |-> notify.calls[k].observer]

\* C5: a finished pass returned normally; it invoked the N observers
\* registered when it began once each, in registration order, each with the
\* event's (snapshot, current, total), whichever of them raised; with no
\* registration during the pass these N invocations are all there were, and
\* each raising observer was logged.
C5_AllObserversNotified ==
    PassDone =>
        /\ notify.result = "returned"
        /\ Len(notify.calls) >= Len(notify.atStart)
        /\ \A k \in 1..Len(notify.atStart) :
              /\ notify.calls[k].observer = notify.atStart[k]
              /\ notify.calls[k].args = notify.args
        /\ ~notify.grew => Len(notify.calls) = Len(notify.atStart)
        /\ notify.logged = [k \in 1..Len(SelectSeq(notify.calls, LAMBDA c : c.raised)) |->
                               SelectSeq(notify.calls, LAMBDA c : c.raised)[k].observer]

\* Three observers, the first raised, the later ones were still invoked.
C5_Witness ==
    /\ PassDone /\ ~notify.grew
    /\ Len(notify.atStart) = 3 /\ Len(notify.calls) = 3
    /\ notify.calls[1].raised /\ ~notify.calls[3].raised

\* C6: the observer collection is the sequence of callables given to
\* add_progress_observer, in call order, duplicates kept: empty at first, one
\* entry more at its end per call, before run and after it.
C6_ObserversAreTheAddCalls ==
    progress_observers = [k \in 1..Len(addLog) |-> addLog[k].observer]

C6_Witness ==
    /\ Len(progress_observers) = 3
    /\ progress_observers[1] = progress_observers[2]
    /\ addLog[1].state = "created" /\ addLog[3].state = "running"

\* C7: whatever is registered during a pass, the pass has at each moment
\* invoked exactly the first i entries of the collection, once each and in
\* order, those registered before it began first; and it ends by returning,
\* having invoked every observer registered before it began.
C7_PassSurvivesRegistration ==
    /\ notify.result /= "raised"
    /\ (notify.active \/ PassDone) =>
        /\ notify.i = Len(notify.calls)
        /\ notify.i <= Len(progress_observers)
        /\ CalledObservers = SubSeq(progress_observers, 1, notify.i)
        /\ \A k \in 1..Len(notify.atStart) :
              k <= notify.i => notify.calls[k].observer = notify.atStart[k]
    /\ PassDone => notify.i >= Len(notify.atStart)

\* A pass that began with one observer, saw another registered, and ended.
C7_Witness ==
    /\ PassDone /\ notify.grew
    /\ Len(notify.atStart) >= 1
    /\ Len(notify.calls) > Len(notify.atStart)

\* C17: a step that is not an add_progress_observer call leaves the observer
\* collection as it is; and every observer that raised in the pass before
\* this one is invoked by this pass again, at the same position.
C17_NotifyKeepsTheCollection ==
    /\ [][addLog' = addLog => progress_observers' = progress_observers]_vars
    /\ [](PassDone =>
            \A k \in 1..Len(notify.earlier) :
                notify.earlier[k].raised =>
                    /\ k <= Len(notify.calls)
                    /\ notify.calls[k].observer = notify.earlier[k].observer)

\* The second event's pass has ended; in the first, the second of the
\* observers raised, and it was invoked again, second.
C17_Witness ==
    /\ PassDone /\ events = 2
    /\ Len(notify.earlier) >= 2 /\ notify.earlier[2].raised
    /\ notify.calls[2].observer = notify.earlier[2].observer
    /\ progress_observers = [k \in 1..Len(addLog) |-> addLog[k].observer]

\* C18: a pass invokes no more observers than were registered when it began,
\* observers registered during the pass included.
C18_InvocationsBoundedByStart ==
    Len(notify.calls) <= Len(notify.atStart)

(***************************************************************************)
(* Shell.exec and Shell.exec_async                                         *)
(***************************************************************************)
\* The base Shell, whose async_exec is NotImplemented, and a backend's Shell,
\* whose async_exec is that backend's AsyncExec class.
Shells == {"Shell", "BackendShell"}

\* (args, encoding, stdout) of a call; stdout is None or a queue
ExecArgs ==
    {[args |-> <<"echo", "hello">>, encoding |-> "utf8", stdout |-> None],
     [args |-> <<"false">>, encoding |-> "utf8", stdout |-> None],
     [args |-> <<"echo", "hello">>, encoding |-> "ascii", stdout |-> "queue"]}

\* How a command can end: its exit code and its decoded output.
ReturnCodes == {0, 1}
Outputs == {"", "hello\n"}

NoResult == [kind |-> "none", value |-> "", returncode |-> 0]
Returned(v) == [kind |-> "return", value |-> v, returncode |-> 0]
ExecExceptionOf(returncode, out) ==
    [kind |-> "ExecException", value |-> out, returncode |-> returncode]
\* NotImplemented(...) : 'NotImplementedType' object is not callable
TypeError == [kind |-> "TypeError", value |-> "", returncode |-> 0]

\* AsyncExec.__init__(shell, args, encoding, stdout), before run()
NewAsyncExec(c) ==
    [shell |-> c.shell, args |-> c.args, encoding |-> c.encoding, stdout |-> c.stdout,
     state |-> "created", runs |-> 0, waits |-> 0,
     returncode |-> 0, output |-> "", waited |-> NoResult]

\* wait() of a backend, on a command that ended: the decoded output when the
\* exit code is 0 (nothing when the output was streamed to the sink),
\* ExecException(exit code, output) otherwise.
WaitOutcome(e) ==
    IF e.returncode = 0
    THEN Returned(IF e.stdout = None THEN e.output ELSE "")
    ELSE ExecExceptionOf(e.returncode, e.output)

Logged(c, result) ==
    [op |-> c.op, shell |-> c.shell, args |-> c.args, encoding |-> c.encoding,
     stdout |-> c.stdout, handle |-> c.handle, result |-> result,
     stateAtReturn |-> IF c.handle = 0 THEN "none" ELSE execs[c.handle].state,
     runsAtReturn |-> IF c.handle = 0 THEN 0 ELSE execs[c.handle].runs,
     waitsAtReturn |-> IF c.handle = 0 THEN 0 ELSE execs[c.handle].waits]

\* shell.exec(args, encoding, stdout) or shell.exec_async(args, encoding, stdout)
\* is called; exec begins with its call of exec_async.
ShellCall(op, shell, a) ==
    /\ caller.pc = "idle"
    /\ Len(callLog) < MaxExecs
    /\ caller' = [op |-> op, pc |-> "construct", shell |-> shell, args |-> a.args,
                  encoding |-> a.encoding, stdout |-> a.stdout, handle |-> 0]
    /\ UNCHANGED <<execs, callLog, notShell>>

\* async_exec = self.async_exec(self, args, encoding, stdout)
ExecAsyncConstructReuse ==
    /\ caller.pc = "construct"
    /\ IF caller.shell = "Shell"
       THEN /\ callLog' = Append(callLog, Logged(caller, TypeError))
            /\ caller' = Idle
            /\ UNCHANGED execs
       ELSE /\ execs' = IF execs = <<>> THEN <<NewAsyncExec(caller)>> ELSE execs
            /\ caller' = [caller EXCEPT !.pc = "run", !.handle = 1]
            /\ UNCHANGED callLog
    /\ UNCHANGED notShell
ExecAsyncConstruct ==
    /\ caller.pc = "construct"
    /\ IF caller.shell = "Shell"
       THEN /\ callLog' = Append(callLog, Logged(caller, TypeError))
            /\ caller' = Idle
            /\ UNCHANGED execs
       ELSE /\ execs' = Append(execs, NewAsyncExec(caller))
            /\ caller' = [caller EXCEPT !.pc = "run", !.handle = Len(execs) + 1]
            /\ UNCHANGED callLog
    /\ UNCHANGED notShell

\* run() of a backend: the command is started and run() returns without
\* waiting for it to end.
Run(e) == [e EXCEPT !.runs = @ + 1, !.state = "running"]

\* async_exec.run()
ExecAsyncRun ==
    /\ caller.pc = "run"
    /\ execs' = [execs EXCEPT ![caller.handle] = Run(@)]
    /\ caller' = [caller EXCEPT !.pc = "return"]
    /\ UNCHANGED <<callLog, notShell>>

\* return async_exec: to the caller of exec_async, or into exec, which goes
\* on to call wait() on it
ExecAsyncReturn ==
    /\ caller.pc = "return"
    /\ IF caller.op = "exec_async"
       THEN /\ callLog' = Append(callLog, Logged(caller, Returned("handle")))
            /\ caller' = Idle
       ELSE /\ caller' = [caller EXCEPT !.pc = "wait"]
            /\ UNCHANGED callLog
    /\ UNCHANGED <<execs, notShell>>

\* The command ends, with some exit code and output.
CommandEnds(h, returncode, output) ==
    /\ execs[h].state = "running"
    /\ execs' = [execs EXCEPT ![h].state = "completed", ![h].returncode = returncode,
                              ![h].output = output]
    /\ UNCHANGED <<caller, callLog, notShell>>

\* return self.exec_async(args, encoding, stdout).wait(): what wait() returns
\* is returned, what it raises is raised
ExecPassesSwallowing(outcome) ==
    IF outcome.kind = "ExecException" THEN Returned(outcome.value) ELSE outcome
ExecPasses(outcome) == outcome

\* exec: .wait() blocks until the command has ended
ExecWait ==
    /\ caller.pc = "wait"
    /\ execs[caller.handle].state = "completed"
    /\ LET outcome == WaitOutcome(execs[caller.handle])
           after == [execs EXCEPT ![caller.handle].waits = @ + 1,
                                  ![caller.handle].waited = outcome]
       IN /\ execs' = after
          /\ callLog' = Append(callLog,
                 [Logged(caller, ExecPasses(outcome)) EXCEPT !.waitsAtReturn = @ + 1])
    /\ caller' = Idle
    /\ UNCHANGED notShell

InitShell ==
    /\ execs = <<>>
    /\ caller = Idle
    /\ callLog = <<>>
    /\ stdout = NoStdout /\ threads = <<>> /\ warnings = <<>>
    /\ copyCalls = 0 /\ callerRaised = FALSE
    /\ progress_observers = <<>> /\ addLog = <<>> /\ notify = NoPass
    /\ events = 0 /\ rpState = "created"
    /\ excInput = NoInput /\ exc = NoException /\ message = NotRendered
    /\ absLog = <<>> /\ transports = <<>> /\ compared = NoComparison
    /\ proc = NoProc /\ waits = NoWaits
    /\ asyncExecCounter = 1 /\ shellCounter = 1 /\ instances = <<>>

NextShell ==
    \/ \E op \in {"exec", "exec_async"}, shell \in Shells, a \in ExecArgs :
          ShellCall(op, shell, a)
    \/ ExecAsyncConstruct
    \/ ExecAsyncRun
    \/ ExecAsyncReturn
    \/ \E h \in 1..Len(execs), returncode \in ReturnCodes, output \in Outputs :
          CommandEnds(h, returncode, output)
    \/ ExecWait

(***************************************************************************)
(* Properties of Shell.exec and Shell.exec_async                           *)
(***************************************************************************)
\* The calls that got as far as constructing an AsyncExec.
Constructing == IF caller.handle = 0 THEN 0 ELSE 1
LoggedWithHandle == Len(SelectSeq(callLog, LAMBDA c : c.handle /= 0))

\* C8: an exec call on a backend's shell that ended has constructed one
\* AsyncExec from its arguments, run it once and waited on it once; it
\* returned what that wait returned - the output, when the exit code is 0 and
\* no sink was given - or raised the ExecException that wait raised, with the
\* command's exit code and output. On the base Shell it ends as exec_async does.
C8_ExecIsExecAsyncThenWait ==
    \A k \in 1..Len(callLog) :
        LET c == callLog[k] IN
        c.op = "exec" =>
            IF c.shell = "Shell"
            THEN c.result = TypeError /\ c.handle = 0
            ELSE /\ c.handle \in 1..Len(execs)
                 /\ LET e == execs[c.handle] IN
                    /\ e.shell = c.shell /\ e.args = c.args
                    /\ e.encoding = c.encoding /\ e.stdout = c.stdout
                    /\ e.runs = 1 /\ e.waits = 1
                    /\ e.state = "completed"
                    /\ c.result = e.waited
                    /\ e.returncode = 0 =>
                          /\ c.result.kind = "return"
                          /\ e.stdout = None => c.result.value = e.output
                    /\ e.returncode /= 0 =>
                          c.result = ExecExceptionOf(e.returncode, e.output)

\* An exec that returned "hello\n" and an exec that raised with exit code 1.
C8_Witness ==
    /\ \E k \in 1..Len(callLog) :
          /\ callLog[k].op = "exec"
          /\ callLog[k].result = Returned("hello\n")
    /\ \E k \in 1..Len(callLog) :
          /\ callLog[k].op = "exec"
          /\ callLog[k].result = ExecExceptionOf(1, "")

\* C9: an exec_async call on a backend's shell that returned has constructed
\* exactly one AsyncExec, bound to that shell and to the call's args, encoding
\* and sink, and returned it with run called once and wait not called; no two
\* calls share a handle, and there are as many AsyncExec as calls that
\* constructed one.
C9_ExecAsyncRunsOnceAndReturns ==
    /\ \A k \in 1..Len(callLog) :
        LET c == callLog[k] IN
        (c.op = "exec_async" /\ c.shell /= "Shell") =>
            /\ c.handle \in 1..Len(execs)
            /\ c.result = Returned("handle")
            /\ LET e == execs[c.handle] IN
                  /\ e.shell = c.shell /\ e.args = c.args
                  /\ e.encoding = c.encoding /\ e.stdout = c.stdout
                  /\ e.runs = 1
            /\ c.runsAtReturn = 1 /\ c.waitsAtReturn = 0
            /\ c.stateAtReturn \in {"running", "completed"}
    /\ \A j, k \in 1..Len(callLog) :
          (j /= k /\ callLog[j].handle /= 0) => callLog[j].handle /= callLog[k].handle
    /\ Len(execs) = LoggedWithHandle + Constructing

\* Two exec_async calls returned distinct handles, the second while its
\* command was still running.
C9_Witness ==
    /\ Len(callLog) = 2
    /\ callLog[1].op = "exec_async" /\ callLog[2].op = "exec_async"
    /\ callLog[1].handle = 1 /\ callLog[2].handle = 2
    /\ callLog[2].stateAtReturn = "running"
    /\ execs[2].state = "running"

(***************************************************************************)
(* ExecException                                                           *)
(***************************************************************************)
\* Texts are sequences of characters; " " and "\n" are whitespace.
Char == {" ", "\n", "x"}
Whitespace == {" ", "\n"}
Texts == SeqsUpTo(Char, MaxOutLen)

\* Exit codes: success, failure, a two-digit code, death by signal 9.
ExitCodes == {0, 1, 12, 0 - 9}

\* str.strip(): without the leading and the trailing whitespace
RECURSIVE LStrip(_)
LStrip(s) == IF s /= <<>> /\ Head(s) \in Whitespace THEN LStrip(Tail(s)) ELSE s
RECURSIVE RStrip(_)
RStrip(s) ==
    IF s /= <<>> /\ s[Len(s)] \in Whitespace THEN RStrip(SubSeq(s, 1, Len(s) - 1)) ELSE s
Strip(s) == RStrip(LStrip(s))

\* f"{returncode}": the decimal digits, after "-" below zero
DecimalDigits == <<"0", "1", "2", "3", "4", "5", "6", "7", "8", "9">>
RECURSIVE NatStr(_)
NatStr(n) ==
    IF n < 10 THEN <<DecimalDigits[n + 1]>>
    ELSE NatStr(n \div 10) \o <<DecimalDigits[(n % 10) + 1]>>
IntStr(n) == IF n < 0 THEN <<"-">> \o NatStr(0 - n) ELSE NatStr(n)

\* f"Command failed with code {self.returncode}"
CommandFailedWithCode(returncode) ==
    <<"C", "o", "m", "m", "a", "n", "d", " ", "f", "a", "i", "l", "e", "d", " ",
      "w", "i", "t", "h", " ", "c", "o", "d", "e", " ">> \o IntStr(returncode)

\* ExecException(returncode, stdout)
ExecException(returncode, out) ==
    [built |-> TRUE, returncode |-> returncode, stdout |-> out,
     args |-> <<returncode, out>>]

\* __str__: self.stdout.strip() or f"Command failed with code {self.returncode}"
StrUnlessEmpty(e) ==
    IF e.stdout /= <<>> THEN Strip(e.stdout) ELSE CommandFailedWithCode(e.returncode)
Str(e) ==
    IF Strip(e.stdout) /= <<>> THEN Strip(e.stdout) ELSE CommandFailedWithCode(e.returncode)

ExcInit(returncode, out) ==
    /\ ~exc.built
    /\ excInput' = [returncode |-> returncode, stdout |-> out]
    /\ exc' = ExecException(returncode, out)
    /\ UNCHANGED <<message, notExc>>

ExcStr ==
    /\ exc.built
    /\ ~message.rendered
    /\ message' = [rendered |-> TRUE, text |-> Str(exc)]
    /\ UNCHANGED <<excInput, exc, notExc>>

InitExc ==
    /\ excInput = NoInput
    /\ exc = NoException
    /\ message = NotRendered
    /\ stdout = NoStdout /\ threads = <<>> /\ warnings = <<>>
    /\ copyCalls = 0 /\ callerRaised = FALSE
    /\ progress_observers = <<>> /\ addLog = <<>> /\ notify = NoPass
    /\ events = 0 /\ rpState = "created"
    /\ execs = <<>> /\ caller = Idle /\ callLog = <<>>
    /\ absLog = <<>> /\ transports = <<>> /\ compared = NoComparison
    /\ proc = NoProc /\ waits = NoWaits
    /\ asyncExecCounter = 1 /\ shellCounter = 1 /\ instances = <<>>

NextExc ==
    \/ \E returncode \in ExitCodes, out \in Texts : ExcInit(returncode, out)
    \/ ExcStr

(***************************************************************************)
(* Properties of ExecException                                             *)
(***************************************************************************)
AllWhitespace(s) == \A k \in 1..Len(s) : s[k] \in Whitespace

\* t is s without its surrounding whitespace: s is whitespace, t, whitespace,
\* and t neither begins nor ends with whitespace.
IsStripped(t, s) ==
    /\ t /= <<>> => (t[1] \notin Whitespace /\ t[Len(t)] \notin Whitespace)
    /\ \E i \in 0..Len(s) :
          /\ i + Len(t) <= Len(s)
          /\ AllWhitespace(SubSeq(s, 1, i))
          /\ SubSeq(s, i + 1, i + Len(t)) = t
          /\ AllWhitespace(SubSeq(s, i + Len(t) + 1, Len(s)))

KeepsItsFields ==
    /\ exc.returncode = excInput.returncode
    /\ exc.stdout = excInput.stdout
    /\ exc.args = <<excInput.returncode, excInput.stdout>>

\* C10 (as stated): the message is the stripped output whenever the output is
\* non-empty, and the fallback naming the exit code when the output is empty.
C10_StrippedWheneverNonEmpty ==
    message.rendered =>
        /\ excInput.stdout /= <<>> => IsStripped(message.text, excInput.stdout)
        /\ excInput.stdout = <<>> =>
              message.text = CommandFailedWithCode(excInput.returncode)
        /\ KeepsItsFields

\* C10 (amended): the message is the stripped output whenever the output has
\* a character that is not whitespace, and the fallback naming the exit code
\* when the output is empty or all whitespace; the exception keeps the exit
\* code and the output it was built with.
C10_StrippedUnlessBlank ==
    /\ exc.built => KeepsItsFields
    /\ message.rendered =>
        /\ ~AllWhitespace(excInput.stdout) =>
              IsStripped(message.text, excInput.stdout)
        /\ AllWhitespace(excInput.stdout) =>
              message.text = CommandFailedWithCode(excInput.returncode)

\* Whitespace-only output of a command killed by signal 9.
C10_Witness ==
    /\ message.rendered
    /\ excInput = [returncode |-> 0 - 9, stdout |-> <<" ", "\n">>]
    /\ message.text = <<"C", "o", "m", "m", "a", "n", "d", " ", "f", "a", "i", "l",
                        "e", "d", " ", "w", "i", "t", "h", " ", "c", "o", "d", "e",
                        " ", "-", "9">>

(***************************************************************************)
(* The base classes, with no backend behind them                           *)
(***************************************************************************)
\* The values the base classes give their class attributes: the
\* NotImplemented singleton (Shell.async_exec) and the NotImplementedError
\* exception class (Transport.shell, Transport.replication_process).
NotImplemented == "NotImplemented"
NotImplementedError == "NotImplementedError"
ShellAsyncExec == NotImplemented
TransportShell == NotImplementedError
TransportReplicationProcess == NotImplementedError

\* raise NotImplementedError
RaisedNotImplementedError == [kind |-> "NotImplementedError", value |-> "", returncode |-> 0]

\* v(...): calling NotImplemented raises TypeError; calling an exception class
\* constructs an exception and returns it, raising nothing.
Called(v) ==
    IF v = NotImplemented THEN TypeError ELSE Returned("NotImplementedError()")

\* The methods whose body is `raise NotImplementedError`
RaisingMethods ==
    {"AsyncExec.run", "AsyncExec.wait", "AsyncExec.stop",
     "Shell.close", "Shell.exists", "Shell.ls", "Shell.put_file",
     "ReplicationProcess.run", "ReplicationProcess.wait", "ReplicationProcess.stop",
     "Transport.from_data", "Transport.__hash__"}

\* exec and exec_async call self.async_exec(...); a Shell or a
\* ReplicationProcess is obtained by calling transport.shell(...) or
\* transport.replication_process(...).
CallingOperations ==
    {"Shell.exec", "Shell.exec_async", "Transport.shell", "Transport.replication_process"}

AbstractOperations == RaisingMethods \cup CallingOperations

AbstractOutcome(op) ==
    CASE op \in RaisingMethods -> RaisedNotImplementedError
      [] op \in {"Shell.exec", "Shell.exec_async"} -> Called(ShellAsyncExec)
      [] op = "Transport.shell" -> Called(TransportShell)
      [] op = "Transport.replication_process" -> Called(TransportReplicationProcess)

\* One operation is called on a base class; none of them writes a field.
AbstractCall(op) ==
    /\ Len(absLog) < MaxAbstractCalls
    /\ absLog' = Append(absLog, [op |-> op, outcome |-> AbstractOutcome(op)])
    /\ UNCHANGED notAbs

InitAbstract ==
    /\ absLog = <<>>
    /\ stdout = NoStdout /\ threads = <<>> /\ warnings = <<>>
    /\ copyCalls = 0 /\ callerRaised = FALSE
    /\ progress_observers = <<>> /\ addLog = <<>> /\ notify = NoPass
    /\ events = 0 /\ rpState = "created"
    /\ execs = <<>> /\ caller = Idle /\ callLog = <<>>
    /\ excInput = NoInput /\ exc = NoException /\ message = NotRendered
    /\ transports = <<>> /\ compared = NoComparison
    /\ proc = NoProc /\ waits = NoWaits
    /\ asyncExecCounter = 1 /\ shellCounter = 1 /\ instances = <<>>

NextAbstract == \E op \in AbstractOperations : AbstractCall(op)

(***************************************************************************)
(* Properties of the base classes                                          *)
(***************************************************************************)
\* C11: every operation called on the base classes raised NotImplementedError,
\* no other error and no normal return, and no object's state has changed.
C11_AlwaysNotImplementedError ==
    /\ \A k \in 1..Len(absLog) : absLog[k].outcome = RaisedNotImplementedError
    /\ progress_observers = <<>> /\ rpState = "created" /\ execs = <<>>

(***************************************************************************)
(* Transport identity: from_data, equality and hash of a backend           *)
(***************************************************************************)
MaxTransports == 2

Hostnames == {"alpha", "beta"}
Usernames == {"root", "backup"}
\* A configuration's port may be absent (NoPort); the destination is then
\* reached on DefaultPort.
NoPort == 0
DefaultPort == 22
Ports == {NoPort, DefaultPort, 2222}

\* The structured configuration objects handed to from_data
Data ==
    {[type |-> "local", hostname |-> "", port |-> NoPort, username |-> ""]}
    \cup [type : {"ssh"}, hostname : Hostnames, port : Ports, username : Usernames]

\* cls.from_data(data) of a backend: the instance holds what identifies the
\* destination, the port it is reached on included.
FromDataRaw(data) ==
    [type |-> data.type, hostname |-> data.hostname, port |-> data.port,
     username |-> data.username]

FromData(data) ==
    [type |-> data.type, hostname |-> data.hostname,
     port |-> IF data.type = "ssh" /\ data.port = NoPort THEN DefaultPort ELSE data.port,
     username |-> data.username]

HostCode(h) == CASE h = "alpha" -> 1 [] h = "beta" -> 2 [] OTHER -> 0
UserCode(u) == CASE u = "root" -> 1 [] u = "backup" -> 2 [] OTHER -> 0

\* transport.__hash__() of a backend: computed from the identifying fields,
\* into a small range, so that different destinations may collide.
Hash(t) == (HostCode(t.hostname) * 31 + t.port + UserCode(t.username) * 7) % 16

\* left == right of a backend: value equality over the identifying fields
Eq(l, r) ==
    /\ l.type = r.type /\ l.hostname = r.hostname
    /\ l.port = r.port /\ l.username = r.username

\* Transport.from_data(data): one more instance
TransportFromData(data) ==
    /\ Len(transports) < MaxTransports
    /\ transports' = Append(transports, [data |-> data, self |-> FromData(data)])
    /\ UNCHANGED <<compared, notTransport>>

\* Two instances are compared and hashed; neither changes.
Compare(i, j) ==
    /\ compared' = [done |-> TRUE, left |-> i, right |-> j,
                    equal |-> Eq(transports[i].self, transports[j].self),
                    sameHash |-> Hash(transports[i].self) = Hash(transports[j].self)]
    /\ compared' # compared
    /\ UNCHANGED <<transports, notTransport>>

InitTransport ==
    /\ transports = <<>> /\ compared = NoComparison
    /\ stdout = NoStdout /\ threads = <<>> /\ warnings = <<>>
    /\ copyCalls = 0 /\ callerRaised = FALSE
    /\ progress_observers = <<>> /\ addLog = <<>> /\ notify = NoPass
    /\ events = 0 /\ rpState = "created"
    /\ execs = <<>> /\ caller = Idle /\ callLog = <<>>
    /\ excInput = NoInput /\ exc = NoException /\ message = NotRendered
    /\ absLog = <<>>
    /\ proc = NoProc /\ waits = NoWaits
    /\ asyncExecCounter = 1 /\ shellCounter = 1 /\ instances = <<>>

NextTransport ==
    \/ \E data \in Data : TransportFromData(data)
    \/ \E i \in 1..Len(transports), j \in 1..Len(transports) : Compare(i, j)

(***************************************************************************)
(* Properties of Transport                                                 *)
(***************************************************************************)
\* The port a configuration's destination is reached on
PortOf(data) == IF data.port = NoPort THEN DefaultPort ELSE data.port

\* Two configurations describe the same destination: the local machine, or
\* the same host reached on the same port as the same user.
SameDestination(d, e) ==
    /\ d.type = e.type
    /\ d.type = "ssh" =>
        /\ d.hostname = e.hostname /\ d.username = e.username
        /\ PortOf(d) = PortOf(e)

\* C12: two instances built by from_data from configurations of the same
\* destination compare equal and have the same hash; two built from
\* configurations of different destinations do not compare equal.
C12_EqualIffSameDestination ==
    compared.done =>
        LET d == transports[compared.left].data
            e == transports[compared.right].data
        IN  /\ SameDestination(d, e) => compared.equal /\ compared.sameHash
            /\ ~SameDestination(d, e) => ~compared.equal

\* Two distinct instances, built from configurations that differ (one names
\* the port, the other leaves it out) and describe one destination, were compared.
C12_Witness ==
    /\ compared.done /\ compared.left # compared.right
    /\ transports[compared.left].data # transports[compared.right].data
    /\ SameDestination(transports[compared.left].data, transports[compared.right].data)
    /\ compared.equal /\ compared.sameHash

(***************************************************************************)
(* wait() and stop() of a backend's AsyncExec and ReplicationProcess       *)
(***************************************************************************)
Kinds == {"AsyncExec", "ReplicationProcess"}

\* An AsyncExec is one command; a ReplicationProcess is a send side and a
\* receive side.
AllSides == {"command", "send", "recv"}
SidesOf(kind) == IF kind = "AsyncExec" THEN {"command"} ELSE {"send", "recv"}

\* created -> running -> completed | failed | stopped, every side terminal
Terminal(p) == \A s \in AllSides : p.sides[s] # "running"
Running(p) == p.kind # "none" /\ ~Terminal(p)

\* stop(): termination of every side is requested.
StopOfUnsignalled(p, waiting) ==
    [p EXCEPT !.stopped = TRUE, !.outstanding = waiting]

StopOf(p, waiting) ==
    [p EXCEPT !.stopped = TRUE, !.signalled = TRUE, !.outstanding = waiting]

\* What wait() hands to its caller once every side is terminal
WaitResult(p) ==
    IF \A s \in SidesOf(p.kind) : p.sides[s] = "completed" THEN "returned" ELSE "raised"

\* run(): every side is started.
ProcRun(kind) ==
    /\ proc = NoProc
    /\ proc' = [NoProc EXCEPT !.kind = kind,
                    !.sides = [s \in AllSides |->
                                  IF s \in SidesOf(kind) THEN "running" ELSE "absent"]]
    /\ UNCHANGED <<waits, notStop>>

\* A side ends by itself, with exit code 0 or not.
SideEnds(s, how) ==
    /\ proc.sides[s] = "running"
    /\ proc' = [proc EXCEPT !.sides[s] = how]
    /\ UNCHANGED <<waits, notStop>>

\* Thread th calls wait() and blocks.
WaitBegin(th) ==
    /\ proc.kind # "none" /\ waits[th] = "none"
    /\ waits' = [waits EXCEPT ![th] = "waiting"]
    /\ UNCHANGED <<proc, notStop>>

\* Thread th, not blocked in wait(), calls stop().
ProcStop(th) ==
    /\ proc.kind # "none" /\ ~proc.stopped /\ waits[th] # "waiting"
    /\ proc' = StopOf(proc, {w \in Threads : waits[w] = "waiting" /\ Running(proc)})
    /\ UNCHANGED <<waits, notStop>>

\* The requested termination takes effect on a side that still runs.
Kill(s) ==
    /\ proc.signalled /\ proc.sides[s] = "running"
    /\ proc' = [proc EXCEPT !.sides[s] = "stopped"]
    /\ UNCHANGED <<waits, notStop>>

\* wait() of thread th returns or raises: every side is terminal.
WaitReturn(th) ==
    /\ waits[th] = "waiting" /\ Terminal(proc)
    /\ waits' = [waits EXCEPT ![th] = WaitResult(proc)]
    /\ UNCHANGED <<proc, notStop>>

InitStop ==
    /\ proc = NoProc /\ waits = NoWaits
    /\ stdout = NoStdout /\ threads = <<>> /\ warnings = <<>>
    /\ copyCalls = 0 /\ callerRaised = FALSE
    /\ progress_observers = <<>> /\ addLog = <<>> /\ notify = NoPass
    /\ events = 0 /\ rpState = "created"
    /\ execs = <<>> /\ caller = Idle /\ callLog = <<>>
    /\ excInput = NoInput /\ exc = NoException /\ message = NotRendered
    /\ absLog = <<>> /\ transports = <<>> /\ compared = NoComparison
    /\ asyncExecCounter = 1 /\ shellCounter = 1 /\ instances = <<>>

NextStop ==
    \/ \E kind \in Kinds : ProcRun(kind)
    \/ \E s \in AllSides, how \in {"completed", "failed"} : SideEnds(s, how)
    \/ \E th \in Threads : WaitBegin(th)
    \/ \E th \in Threads : ProcStop(th)
    \/ \E s \in AllSides : Kill(s)
    \/ \E th \in Threads : WaitReturn(th)

(***************************************************************************)
(* Properties of wait() and stop()                                         *)
(***************************************************************************)
\* C13: once stop() has been called, from whichever thread, a wait() that is
\* outstanding does not stay blocked: it eventually returns or raises.
C13_StopReleasesWaits ==
    \A th \in Threads :
        (proc.stopped /\ waits[th] = "waiting") ~> (waits[th] \in {"returned", "raised"})

\* stop() was called from one thread on a running ReplicationProcess while
\* another thread was blocked in wait(), and that wait() has raised.
C13_Witness ==
    /\ proc.kind = "ReplicationProcess" /\ proc.stopped
    /\ \E th \in proc.outstanding : waits[th] = "raised"
    /\ \E s \in AllSides : proc.sides[s] = "stopped"

(***************************************************************************)
(* The logger counters of AsyncExec and Shell                              *)
(***************************************************************************)
MaxInstances == 3

\* The backend variants; their classes inherit _logger_counter.
Variants == {"local", "ssh"}
\* What a Shell is constructed on: a backend's transport, or the base
\* Transport, whose logger is the NotImplementedError class.
TransportsOf == Variants \cup {"Transport"}

\* next(self._logger_counter) on itertools.count(1): the value, the counter after
CountNextStuck(c) == [value |-> c, counter |-> c]
CountNext(c) == [value |-> c, counter |-> c + 1]

Constructions == {k \in 1..Len(instances) : instances[k].state = "init"}
Busy(th) == \E k \in Constructions : instances[k].thread = th

\* AsyncExec.__init__ of any variant, in thread th, up to next(...)
AsyncExecInit(th, variant) ==
    /\ Len(instances) < MaxInstances /\ ~Busy(th)
    /\ LET n == CountNext(asyncExecCounter)
       IN  /\ asyncExecCounter' = n.counter
           /\ instances' = Append(instances,
                  [cls |-> "AsyncExec", variant |-> variant, thread |-> th,
                   id |-> n.value, state |-> "init"])
    /\ UNCHANGED <<shellCounter, notId>>

\* Shell.__init__(transport) in thread th, up to next(...); on the base
\* Transport, transport.logger.getChild raises AttributeError before next(...).
ShellInit(th, transport) ==
    /\ Len(instances) < MaxInstances /\ ~Busy(th)
    /\ IF transport = "Transport"
       THEN /\ instances' = Append(instances,
                   [cls |-> "Shell", variant |-> transport, thread |-> th,
                    id |-> 0, state |-> "AttributeError"])
            /\ UNCHANGED shellCounter
       ELSE LET n == CountNext(shellCounter)
            IN  /\ shellCounter' = n.counter
                /\ instances' = Append(instances,
                       [cls |-> "Shell", variant |-> transport, thread |-> th,
                        id |-> n.value, state |-> "init"])
    /\ UNCHANGED <<asyncExecCounter, notId>>

\* self.logger = ...getChild(str(id)): the constructor returns.
LoggerSet(k) ==
    /\ instances[k].state = "init"
    /\ instances' = [instances EXCEPT ![k].state = "built"]
    /\ UNCHANGED <<asyncExecCounter, shellCounter, notId>>

InitIds ==
    /\ asyncExecCounter = 1 /\ shellCounter = 1 /\ instances = <<>>
    /\ stdout = NoStdout /\ threads = <<>> /\ warnings = <<>>
    /\ copyCalls = 0 /\ callerRaised = FALSE
    /\ progress_observers = <<>> /\ addLog = <<>> /\ notify = NoPass
    /\ events = 0 /\ rpState = "created"
    /\ execs = <<>> /\ caller = Idle /\ callLog = <<>>
    /\ excInput = NoInput /\ exc = NoException /\ message = NotRendered
    /\ absLog = <<>> /\ transports = <<>> /\ compared = NoComparison
    /\ proc = NoProc /\ waits = NoWaits

NextIds ==
    \/ \E th \in Threads, variant \in Variants : AsyncExecInit(th, variant)
    \/ \E th \in Threads, transport \in TransportsOf : ShellInit(th, transport)
    \/ \E k \in 1..Len(instances) : LoggerSet(k)

(***************************************************************************)
(* Properties of the logger counters                                       *)
(***************************************************************************)
\* The ids given to the instances of a class, in the order they were drawn
IdsOf(cls) ==
    LET given == SelectSeq(instances, LAMBDA e : e.cls = cls /\ e.state # "AttributeError")
    IN  [k \in 1..Len(given) |-> given[k].id]

\* C19: the ids given to the AsyncExec instances, whatever their variant and
\* thread, are 1, 2, 3, ... in the order drawn, hence distinct and strictly
\* increasing; so are those given to the Shell instances; and each counter
\* stands one past the number of ids drawn from it, whatever was drawn from
\* the other.
C19_IdsCountUpPerClass ==
    /\ \A cls \in {"AsyncExec", "Shell"} :
          IdsOf(cls) = [k \in 1..Len(IdsOf(cls)) |-> k]
    /\ asyncExecCounter = Len(IdsOf("AsyncExec")) + 1
    /\ shellCounter = Len(IdsOf("Shell")) + 1

\* Two AsyncExec of different variants, constructed in different threads at
\* the same time, with a Shell constructed in between.
C19_Witness ==
    /\ Len(instances) = 3
    /\ instances[1].cls = "AsyncExec" /\ instances[3].cls = "AsyncExec"
    /\ instances[1].variant # instances[3].variant
    /\ instances[1].thread # instances[3].thread
    /\ instances[1].state = "init" /\ instances[3].state = "init"
    /\ instances[2].cls = "Shell" /\ instances[2].state = "built"
    /\ instances[1].id = 1 /\ instances[2].id = 1 /\ instances[3].id = 2

(***************************************************************************)
(* Specifications                                                          *)
(***************************************************************************)
SpecCopy == InitCopy /\ [][NextCopy]_vars

\* Each started copy thread keeps being scheduled.
SpecCopyFair ==
    SpecCopy /\ \A t \in 1..MaxCopyCalls : WF_vars(t <= Len(threads) /\ Target(t))

SpecObs == InitObs /\ [][NextObs]_vars

SpecShell == InitShell /\ [][NextShell]_vars

SpecExc == InitExc /\ [][NextExc]_vars

SpecAbstract == InitAbstract /\ [][NextAbstract]_vars

SpecTransport == InitTransport /\ [][NextTransport]_vars

SpecStop == InitStop /\ [][NextStop]_vars

\* A requested termination takes effect, and a thread whose wait() can
\* return keeps being scheduled. A command left alone may run forever.
SpecStopFair ==
    /\ SpecStop
    /\ \A s \in AllSides : WF_vars(Kill(s))
    /\ \A th \in Threads : WF_vars(WaitReturn(th))

SpecIds == InitIds /\ [][NextIds]_vars

\* The classes side by side.
Init == InitCopy
Next ==
    \/ NextCopy \/ NextObs \/ NextShell \/ NextExc
    \/ NextAbstract \/ NextTransport \/ NextStop \/ NextIds
Spec == Init /\ [][Next]_vars

====
